---------------------------- MODULE Spec2Model ----------------------------
(***************************************************************************)
(* Model of the weather monitoring pipeline: config.py, main.py,           *)
(* weather/weather_data.py, utils/temperature_utils.py,                    *)
(* db/data_processing.py, db/db_manager.py and the dashboard's calls in    *)
(* streamlit_app.py.                                                       *)
(*                                                                         *)
(* Fixed point: temperatures and thresholds are integers in hundredths of  *)
(* a degree (308.15 K is 30815).  A datetime is an integer number of hours *)
(* since midnight of day 0: its date is dt \div 24, its hour dt % 24.      *)
(* Fahrenheit values are rounded down to the hundredth.                    *)
(*                                                                         *)
(* Floats: the columns and pandas hold binary floating point numbers,      *)
(* whose spacing doubles at every power of two.  The model keeps the       *)
(* powers of two where they are and cuts the significand: a float between  *)
(* 256 and 512 is a multiple of 0.01, one between 512 and 1024 of 0.02,    *)
(* and so on; the result of an operation is the float nearest to the exact *)
(* result, the one with the even significand when two are as near.         *)
(***************************************************************************)
EXTENDS Integers, Sequences, FiniteSets, TLC

VARIABLES
    now,                \* the latest reading of the wall clock, datetime.now()
    tables,             \* names of the tables that exist in the database
    weather_data,       \* rows of table weather_data
    daily_summary,      \* rows of table daily_summary
    user_config,        \* rows of table user_config
    pc,                 \* position of main.py's scheduler process
    weather_data_list,  \* get_latest_weather_info's local: the fetched batch
    alerts,             \* the list the last check_alerts_in_app call returned
    log,                \* the last message printed by the scheduler process
    dpc,                \* position of the dashboard's render
    settings,           \* the dashboard's widget values: empty, or one record
    dlog,               \* the last message printed by the dashboard process
    calls,              \* what the direct calls of a function printed, in order
    args,               \* the arguments of the last direct call of a pure function
    ret,                \* what that call returned
    summary_run,        \* a calculate_daily_summary between its query and its
                        \* write: empty, or its locals today and results
    config_sessions,    \* the update_user_config transactions of two sessions
    engine_run          \* a get_engine in its loop: empty, or its caller, its
                        \* loop variable i and where it stands

\* the calls in flight the interleaving of which is modelled
inflight == <<summary_run, config_sessions, engine_run>>

vars == <<now, tables, weather_data, daily_summary, user_config, pc,
          weather_data_list, alerts, log, dpc, settings, dlog, calls, args, ret,
          summary_run, config_sessions, engine_run>>

---------------------------------------------------------------------------
(* Bounds of the model *)

\* days 0 .. MaxDay are modelled
MaxDay == 2
\* a retrieval tick starts only while the table can take a whole batch
MaxRows == 3
\* largest consecutive_updates entered in the dashboard
MaxN == 2
\* most rows of a weather_data table drawn for the aggregation runs
MaxDf == 3
\* most direct calls of calculate_daily_summary on one store
MaxCalls == 2
\* most readings of a city and day handed to get_temperature_stats directly
MaxReadings == 7

---------------------------------------------------------------------------
(* config.py *)

\* the configured cities, in list order (two of the six metros)
CITIES == <<"Delhi", "Mumbai">>

TEMP_UNIT_CELSIUS == "Celsius"
TEMP_UNIT_FAHRENHEIT == "Fahrenheit"
TEMP_UNIT_KELVIN == "Kelvin"

ALERT_THRESHOLDS ==
    [city |-> "London", threshold |-> 3500, unit |-> "Celsius",
     consecutive_updates |-> 2]

---------------------------------------------------------------------------
(* Strings are compared as Python and PostgreSQL compare them *)

Alphabet == <<"Clear", "Clouds", "Delhi", "Haze", "London", "Mumbai", "Rain">>

Rank(s) == CHOOSE i \in 1..Len(Alphabet) : Alphabet[i] = s

StrLess(a, b) == Rank(a) < Rank(b)

---------------------------------------------------------------------------
(* utils/temperature_utils.py *)

kelvin_to_celsius(kelvin) == kelvin - 27315

kelvin_to_fahrenheit(kelvin) == (kelvin_to_celsius(kelvin) * 9) \div 5 + 3200

\* a variant that takes an unknown unit for Celsius
convert_temperature_default_celsius(kelvin, to_unit) ==
    IF to_unit = TEMP_UNIT_CELSIUS THEN kelvin_to_celsius(kelvin)
    ELSE IF to_unit = TEMP_UNIT_FAHRENHEIT THEN kelvin_to_fahrenheit(kelvin)
    ELSE IF to_unit = TEMP_UNIT_KELVIN THEN kelvin
    ELSE kelvin_to_celsius(kelvin)

convert_temperature(kelvin, to_unit) ==
    IF to_unit = TEMP_UNIT_CELSIUS THEN kelvin_to_celsius(kelvin)
    ELSE IF to_unit = TEMP_UNIT_FAHRENHEIT THEN kelvin_to_fahrenheit(kelvin)
    ELSE IF to_unit = TEMP_UNIT_KELVIN THEN kelvin
    ELSE kelvin

\* a variant that counts 17h as daytime
assign_weight_inclusive(hour) == IF 9 <= hour /\ hour <= 17 THEN 2 ELSE 1

assign_weight(hour) == IF 9 <= hour /\ hour < 17 THEN 2 ELSE 1

---------------------------------------------------------------------------
(* Sequences and arithmetic used by the pandas and SQL operations *)

RECURSIVE SeqSum(_)
SeqSum(s) == IF s = <<>> THEN 0 ELSE s[1] + SeqSum(Tail(s))

SeqMax(s) == CHOOSE m \in {s[i] : i \in 1..Len(s)} : \A i \in 1..Len(s) : s[i] <= m

SeqMin(s) == CHOOSE m \in {s[i] : i \in 1..Len(s)} : \A i \in 1..Len(s) : m <= s[i]

\* the spacing of the floats at v, v being at least 256 (25600 hundredths)
RECURSIVE Spacing(_, _, _)
Spacing(v, top, g) == IF v < top THEN g ELSE Spacing(v, 2 * top, 2 * g)

FloatSpacing(v) == Spacing(v, 51200, 1)

\* the integer nearest to num / den, the even one of two that are as near
RoundHalfEven(num, den) ==
    LET q == num \div den
        r == num % den
    IN  IF 2 * r < den THEN q
        ELSE IF 2 * r > den THEN q + 1
        ELSE IF q % 2 = 0 THEN q ELSE q + 1

\* the float nearest to num / den
FloatRound(num, den) ==
    LET g == FloatSpacing(num \div den)
    IN  g * RoundHalfEven(num, den * g)

\* "mean" of pandas' agg: the sum of the values, a float, over their count,
\* a float
SeqMean(s) == FloatRound(FloatRound(SeqSum(s), 1), Len(s))

\* every order in which a query without ORDER BY may return the rows of a set
Orders(S) ==
    {s \in [1..Cardinality(S) -> S] :
        \A i, j \in 1..Cardinality(S) : i # j => s[i] # s[j]}

---------------------------------------------------------------------------
(* db/data_processing.py *)

process_daily_weather_data(weather_records) ==
    [i \in 1..Len(weather_records) |->
        [city |-> weather_records[i].city,
         temp |-> weather_records[i].temp,
         main |-> weather_records[i].main,
         dt |-> weather_records[i].dt,
         date |-> weather_records[i].dt \div 24,
         hour |-> weather_records[i].dt % 24,
         weight |-> assign_weight(weather_records[i].dt % 24)]]

\* groupby sorts its group keys: the order of (city, date) keys
CityDateLess(a, b) ==
    \/ StrLess(a.city, b.city)
    \/ a.city = b.city /\ a.date < b.date

\* the order of (city, date, main) keys
CityDateMainLess(a, b) ==
    \/ CityDateLess(a, b)
    \/ a.city = b.city /\ a.date = b.date /\ StrLess(a.main, b.main)

RECURSIVE SortedCityDate(_)
SortedCityDate(keys) ==
    IF keys = {} THEN <<>>
    ELSE LET k == CHOOSE x \in keys : \A y \in keys \ {x} : CityDateLess(x, y)
         IN  <<k>> \o SortedCityDate(keys \ {k})

RECURSIVE SortedCityDateMain(_)
SortedCityDateMain(keys) ==
    IF keys = {} THEN <<>>
    ELSE LET k == CHOOSE x \in keys : \A y \in keys \ {x} : CityDateMainLess(x, y)
         IN  <<k>> \o SortedCityDateMain(keys \ {k})

\* the keys of groupby(["city", "date"]), in the order groupby yields them
GroupsCityDate(df) ==
    SortedCityDate({[city |-> df[i].city, date |-> df[i].date] : i \in 1..Len(df)})

\* a variant as groupby(..., sort=False) yields the keys: by first appearance
GroupsCityDateMainUnsorted(df) ==
    LET KeyAt(i) == [city |-> df[i].city, date |-> df[i].date, main |-> df[i].main]
        firsts == {i \in 1..Len(df) : \A j \in 1..(i - 1) : KeyAt(j) # KeyAt(i)}
    IN  [k \in 1..Cardinality(firsts) |->
            KeyAt(CHOOSE i \in firsts : Cardinality({j \in firsts : j < i}) = k - 1)]

\* the keys of groupby(["city", "date", "main"]), in the order groupby yields them
GroupsCityDateMain(df) ==
    SortedCityDateMain({[city |-> df[i].city, date |-> df[i].date, main |-> df[i].main] :
                            i \in 1..Len(df)})

\* a variant that groups by date alone
get_temperature_stats_by_date(processed_df) ==
    LET groups == GroupsCityDate(processed_df)
        Temps(k) ==
            LET InGroup(r) == r.date = k.date
                rows == SelectSeq(processed_df, InGroup)
            IN  [i \in 1..Len(rows) |-> rows[i].temp]
    IN  [g \in 1..Len(groups) |->
            [city |-> groups[g].city,
             date |-> groups[g].date,
             avg_temp |-> SeqMean(Temps(groups[g])),
             max_temp |-> SeqMax(Temps(groups[g])),
             min_temp |-> SeqMin(Temps(groups[g]))]]

get_temperature_stats(processed_df) ==
    LET groups == GroupsCityDate(processed_df)
        Temps(k) ==
            LET InGroup(r) == r.city = k.city /\ r.date = k.date
                rows == SelectSeq(processed_df, InGroup)
            IN  [i \in 1..Len(rows) |-> rows[i].temp]
    IN  [g \in 1..Len(groups) |->
            [city |-> groups[g].city,
             date |-> groups[g].date,
             avg_temp |-> SeqMean(Temps(groups[g])),
             max_temp |-> SeqMax(Temps(groups[g])),
             min_temp |-> SeqMin(Temps(groups[g]))]]

\* processed_df.groupby(["city", "date", "main"])["weight"].sum().reset_index()
SummedWeights(processed_df) ==
    LET groups == GroupsCityDateMain(processed_df)
        Weights(k) ==
            LET InGroup(r) == r.city = k.city /\ r.date = k.date /\ r.main = k.main
                rows == SelectSeq(processed_df, InGroup)
            IN  [i \in 1..Len(rows) |-> rows[i].weight]
    IN  [g \in 1..Len(groups) |->
            [city |-> groups[g].city,
             date |-> groups[g].date,
             main |-> groups[g].main,
             weight |-> SeqSum(Weights(groups[g]))]]

\* the order of sort_values(["city", "date", "weight"], ascending=[True, True, False])
SortValuesLess(a, b) ==
    \/ CityDateLess(a, b)
    \/ a.city = b.city /\ a.date = b.date /\ a.weight > b.weight

\* sort_values on several columns is a stable sort: rows that compare equal
\* keep the order they had
RECURSIVE sort_values(_)
sort_values(rows) ==
    IF rows = <<>> THEN <<>>
    ELSE LET sorted == sort_values(SubSeq(rows, 1, Len(rows) - 1))
             x == rows[Len(rows)]
             k == Cardinality({i \in 1..Len(sorted) : ~SortValuesLess(x, sorted[i])})
         IN  SubSeq(sorted, 1, k) \o <<x>> \o SubSeq(sorted, k + 1, Len(sorted))

get_dominant_conditions(processed_df) ==
    LET dominant_conditions == sort_values(SummedWeights(processed_df))
        groups == GroupsCityDate(dominant_conditions)
        First(k) ==
            LET InGroup(r) == r.city = k.city /\ r.date = k.date
            IN  Head(SelectSeq(dominant_conditions, InGroup))
    IN  [g \in 1..Len(groups) |->
            [city |-> groups[g].city,
             date |-> groups[g].date,
             dominant_condition |-> First(groups[g]).main,
             weight |-> First(groups[g]).weight]]

---------------------------------------------------------------------------
(* The environment: the clock and the weather provider *)

\* the instants at which the clock is read: 9h and 17h of day 0, 17h of each
\* later day
Instants == {9, 17} \cup {d * 24 + 17 : d \in 1..MaxDay}

\* the clock never runs backwards: what a read of datetime.now() may return
ClockReadings == {t \in Instants : t >= now}

\* what the provider observes: clear at 36 C, clouds at 35 C, rain at 28 C
Clear == [main |-> "Clear", temp |-> 30915, feels_like |-> 31115]
Clouds == [main |-> "Clouds", temp |-> 30815, feels_like |-> 31015]
Rain == [main |-> "Rain", temp |-> 30115, feels_like |-> 30315]

\* haze at 28.09 C
Haze == [main |-> "Haze", temp |-> 30124, feels_like |-> 30324]

\* the weather a city has while the scheduler runs
Weather(city) == IF city = "Delhi" THEN {Clear, Rain} ELSE {Rain}

\* the provider's answers for a city at time t: a reading (status 200) or an
\* error
Responses(city, t) ==
    {[status_code |-> 200, main |-> w.main, temp |-> w.temp,
      feels_like |-> w.feels_like, dt |-> t] : w \in Weather(city)}
    \cup {[status_code |-> 404]}

\* the answers to one round of requests, one per city of CITIES
ResponseRounds(t) ==
    {r \in [1..Len(CITIES) -> UNION {Responses(CITIES[i], t) : i \in 1..Len(CITIES)}] :
        \A i \in 1..Len(CITIES) : r[i] \in Responses(CITIES[i], t)}

\* the (threshold, unit) pairs callers pass to update_user_config
ThresholdUnits ==
    {<<3500, "Celsius">>, <<9500, "Fahrenheit">>, <<30800, "Kelvin">>,
     <<30800, "Rankine">>}

---------------------------------------------------------------------------
(* weather/weather_data.py *)

\* the list holds the reading, or is empty where the code returns None
get_weather_data(city, response) ==
    IF response.status_code = 200
    THEN <<[city |-> city,
            main |-> response.main,
            temp |-> response.temp,
            feels_like |-> response.feels_like,
            dt |-> response.dt]>>
    ELSE <<>>

\* the loop over CITIES from position i on; responses[i] answers city i
RECURSIVE CitiesFrom(_, _)
CitiesFrom(i, responses) ==
    IF i > Len(CITIES) THEN <<>>
    ELSE get_weather_data(CITIES[i], responses[i]) \o CitiesFrom(i + 1, responses)

get_all_cities_weather(responses) == CitiesFrom(1, responses)

---------------------------------------------------------------------------
(* db/db_manager.py *)

\* the dashboard sessions that may call update_user_config at a time
Sessions == {"first", "second"}

TableNames == {"weather_data", "daily_summary", "user_config"}

\* timedelta(days=2), in hours
CutoffHours == 2 * 24

SameReading(a, b) == a.city = b.city /\ a.dt = b.dt

SameSummary(a, b) == a.city = b.city /\ a.date = b.date

\* INSERT ... ON CONFLICT (city, dt) DO UPDATE SET main, temp, feels_like
WeatherUpsert(table, rows) ==
    {r \in table : \A n \in rows : ~SameReading(r, n)} \cup rows

\* a variant whose conflict clause adds the new maximum to the stored one
SummaryUpsertAdditive(table, rows) ==
    {r \in table : \A n \in rows : ~SameSummary(r, n)}
    \cup {IF \E r \in table : SameSummary(r, n)
          THEN [n EXCEPT !.max_temp =
                   n.max_temp + (CHOOSE r \in table : SameSummary(r, n)).max_temp]
          ELSE n : n \in rows}

\* a variant that replaces the table by the new rows
SummaryUpsertReplacing(table, rows) == rows

\* INSERT ... ON CONFLICT (city, date) DO UPDATE SET every other column
SummaryUpsert(table, rows) ==
    {r \in table : \A n \in rows : ~SameSummary(r, n)} \cup rows

\* a plain INSERT of the rows violates the primary key (city, dt)
PrimaryKeyViolation(table, batch) ==
    \/ \E i \in 1..Len(batch) : \E r \in table : SameReading(r, batch[i])
    \/ \E i, j \in 1..Len(batch) : i # j /\ SameReading(batch[i], batch[j])

\* a variant that puts the default row back at every run
initialise_tables_resetting(rejected) ==
    /\ tables' = tables \cup TableNames
    /\ user_config' = IF ~rejected THEN {ALERT_THRESHOLDS} ELSE user_config
    /\ UNCHANGED <<weather_data, daily_summary>>

\* rejected: the database refuses the insert of the default row or its commit;
\* the table it was meant for has been created by then
initialise_tables(rejected) ==
    /\ tables' = tables \cup TableNames
    /\ user_config' =
         IF "user_config" \notin tables /\ ~rejected
         THEN {ALERT_THRESHOLDS}
         ELSE user_config
    /\ UNCHANGED <<weather_data, daily_summary>>

\* a variant that also deletes the rows at the cutoff itself
delete_old_weather_data_inclusive(t, rejected) ==
    LET cutoff_datetime == t - CutoffHours
    IN  /\ IF rejected
           THEN /\ log' = "error_deleting"
                /\ UNCHANGED weather_data
           ELSE /\ weather_data' = {r \in weather_data : ~(r.dt <= cutoff_datetime)}
                /\ log' = "deleted_old"
        /\ UNCHANGED <<tables, daily_summary, user_config>>

\* a variant whose cutoff is two hours before now, not two days
delete_old_weather_data_two_hours(t, rejected) ==
    LET cutoff_datetime == t - 2
    IN  /\ IF rejected
           THEN /\ log' = "error_deleting"
                /\ UNCHANGED weather_data
           ELSE /\ weather_data' = {r \in weather_data : ~(r.dt < cutoff_datetime)}
                /\ log' = "deleted_old"
        /\ UNCHANGED <<tables, daily_summary, user_config>>

\* a variant that sweeps the summaries of the days before the cutoff as well
delete_old_weather_data_and_summaries(t, rejected) ==
    LET cutoff_datetime == t - CutoffHours
    IN  /\ IF rejected
           THEN /\ log' = "error_deleting"
                /\ UNCHANGED <<weather_data, daily_summary>>
           ELSE /\ weather_data' = {r \in weather_data : ~(r.dt < cutoff_datetime)}
                /\ daily_summary' =
                     {s \in daily_summary : ~(s.date * 24 < cutoff_datetime)}
                /\ log' = "deleted_old"
        /\ UNCHANGED <<tables, user_config>>

\* t: what datetime.now() returns;
\* rejected: the database refuses the statement or the commit
delete_old_weather_data(t, rejected) ==
    LET cutoff_datetime == t - CutoffHours
    IN  /\ IF rejected
           THEN /\ log' = "error_deleting"
                /\ UNCHANGED weather_data
           ELSE /\ weather_data' = {r \in weather_data : ~(r.dt < cutoff_datetime)}
                /\ log' = "deleted_old"
        /\ UNCHANGED <<tables, daily_summary, user_config>>

\* pd.merge(temp_stats, dominant_stats[["city", "date", "dominant_condition"]],
\*          on=["city", "date"]).to_dict(orient="records")
MergeSummary(temp_stats, dominant_stats) ==
    {[city |-> temp_stats[i].city,
      date |-> temp_stats[i].date,
      avg_temp |-> temp_stats[i].avg_temp,
      max_temp |-> temp_stats[i].max_temp,
      min_temp |-> temp_stats[i].min_temp,
      dominant_condition |-> dominant_stats[j].dominant_condition] :
        <<i, j>> \in {p \in (1..Len(temp_stats)) \X (1..Len(dominant_stats)) :
                        SameSummary(temp_stats[p[1]], dominant_stats[p[2]])}}

\* the summary rows a run computes from the rows its query returned
SummaryDicts(results) ==
    LET processed_df == process_daily_weather_data(results)
    IN  MergeSummary(get_temperature_stats(processed_df),
                     get_dominant_conditions(processed_df))

\* t: what datetime.now() returns;
\* rejected: the database refuses a statement or the commit
calculate_daily_summary(t, rejected) ==
    LET today == t \div 24
        todays == {r \in weather_data : r.dt \div 24 = today}
    IN  /\ IF rejected
           THEN /\ log' = "error_summary"
                /\ UNCHANGED daily_summary
           ELSE IF todays = {}
           THEN /\ log' = "no_data_for_summary"
                /\ UNCHANGED daily_summary
           ELSE \E results \in Orders(todays) :
                  LET summary_dicts == SummaryDicts(results)
                  IN  IF summary_dicts = {}
                      THEN /\ log' = "no_summaries"
                           /\ UNCHANGED daily_summary
                      ELSE /\ daily_summary' =
                                SummaryUpsert(daily_summary, summary_dicts)
                           /\ log' = "summary_upserted"
        /\ UNCHANGED <<tables, weather_data, user_config>>

\* a variant whose failed INSERT leaves behind the rows that did not conflict
store_weather_data_partial(batch, rejected) ==
    /\ IF batch = <<>> \/ PrimaryKeyViolation(weather_data, batch)
       THEN /\ log' = "error_inserting_integrity"
            /\ weather_data' = weather_data \cup
                 {batch[i] : i \in {j \in 1..Len(batch) :
                     \A r \in weather_data : ~SameReading(r, batch[j])}}
       ELSE IF rejected
       THEN /\ log' = "error_inserting_operational"
            /\ UNCHANGED weather_data
       ELSE /\ weather_data' = weather_data \cup {batch[i] : i \in 1..Len(batch)}
            /\ log' = "upserted"
    /\ UNCHANGED <<tables, daily_summary, user_config>>

\* session.execute(stmt): the plain INSERT is executed, not upsert_stmt; an
\* empty batch is an INSERT of one row of defaults, which has no key;
\* rejected: the database refuses the statement or the commit
store_weather_data(batch, rejected) ==
    /\ IF batch = <<>> \/ PrimaryKeyViolation(weather_data, batch)
       THEN /\ log' = "error_inserting_integrity"
            /\ UNCHANGED weather_data
       ELSE IF rejected
       THEN /\ log' = "error_inserting_operational"
            /\ UNCHANGED weather_data
       ELSE /\ weather_data' = weather_data \cup {batch[i] : i \in 1..Len(batch)}
            /\ log' = "upserted"
    /\ UNCHANGED <<tables, daily_summary, user_config>>

\* a variant that inserts without deleting the rows there are
update_user_config_no_delete(city, threshold, unit, consecutive_updates, rejected) ==
    /\ IF rejected \/ "user_config" \notin tables
       THEN /\ dlog' = "error_updating"
            /\ UNCHANGED user_config
       ELSE /\ user_config' = user_config \cup
                 {[city |-> city, threshold |-> threshold, unit |-> unit,
                   consecutive_updates |-> consecutive_updates]}
            /\ dlog' = "updated"
    /\ UNCHANGED <<tables, weather_data, daily_summary>>

\* a variant whose DELETE stays when the insert or the commit is refused
update_user_config_delete_kept(city, threshold, unit, consecutive_updates, rejected) ==
    /\ IF rejected \/ "user_config" \notin tables
       THEN /\ dlog' = "error_updating"
            /\ user_config' = {}
       ELSE /\ user_config' =
                 {[city |-> city, threshold |-> threshold, unit |-> unit,
                   consecutive_updates |-> consecutive_updates]}
            /\ dlog' = "updated"
    /\ UNCHANGED <<tables, weather_data, daily_summary>>

\* rejected: the database refuses a statement or the commit
update_user_config(city, threshold, unit, consecutive_updates, rejected) ==
    /\ IF rejected \/ "user_config" \notin tables
       THEN /\ dlog' = "error_updating"
            /\ UNCHANGED user_config
       ELSE /\ user_config' =
                 {[city |-> city, threshold |-> threshold, unit |-> unit,
                   consecutive_updates |-> consecutive_updates]}
            /\ dlog' = "updated"
    /\ UNCHANGED <<tables, weather_data, daily_summary>>

\* the rows .first() may return; the empty set where the code returns None
read_user_config ==
    IF "user_config" \in tables THEN user_config ELSE {}

\* the rows of a city ordered by dt descending
RECURSIVE OrderByDtDesc(_)
OrderByDtDesc(rows) ==
    IF rows = {} THEN <<>>
    ELSE LET latest == CHOOSE r \in rows : \A o \in rows : o.dt <= r.dt
         IN  <<latest>> \o OrderByDtDesc(rows \ {latest})

Limit(rows, n) == SubSeq(rows, 1, IF n < Len(rows) THEN n ELSE Len(rows))

\* the rows of a city ordered by dt ascending
RECURSIVE OrderByDtAsc(_)
OrderByDtAsc(rows) ==
    IF rows = {} THEN <<>>
    ELSE LET earliest == CHOOSE r \in rows : \A o \in rows : r.dt <= o.dt
         IN  <<earliest>> \o OrderByDtAsc(rows \ {earliest})

\* a variant that orders by dt ascending: the oldest entries
RecentEntriesOldest(config, table) ==
    Limit(OrderByDtAsc({r \in table : r.city = config.city}),
          config.consecutive_updates)

RecentEntries(config, table) ==
    Limit(OrderByDtDesc({r \in table : r.city = config.city}),
          config.consecutive_updates)

AlertMessage(config, current_temp) ==
    [city |-> config.city, threshold |-> config.threshold, unit |-> config.unit,
     consecutive_updates |-> config.consecutive_updates,
     current_temp |-> current_temp]

\* a variant without the check that enough entries were fetched
AlertsForUnchecked(config, table) ==
    IF config.consecutive_updates < 0
    THEN <<>>
    ELSE LET recent_entries == RecentEntries(config, table)
             recent_temps ==
                 [i \in 1..Len(recent_entries) |->
                     convert_temperature(recent_entries[i].temp, config.unit)]
         IN  IF \A i \in 1..Len(recent_temps) : recent_temps[i] > config.threshold
             THEN IF recent_temps = <<>>
                  THEN <<>>
                  ELSE <<AlertMessage(config, recent_temps[1])>>
             ELSE <<>>

\* a variant on a database whose negative LIMIT means no limit
AlertsForNoLimit(config, table) ==
    LET recent_entries ==
            IF config.consecutive_updates < 0
            THEN OrderByDtDesc({r \in table : r.city = config.city})
            ELSE RecentEntries(config, table)
        recent_temps ==
            [i \in 1..Len(recent_entries) |->
                convert_temperature(recent_entries[i].temp, config.unit)]
    IN  IF Len(recent_entries) < config.consecutive_updates
        THEN <<>>
        ELSE IF \A i \in 1..Len(recent_temps) : recent_temps[i] > config.threshold
        THEN IF recent_temps = <<>>
             THEN <<>>
             ELSE <<AlertMessage(config, recent_temps[1])>>
        ELSE <<>>

\* a variant that reports the oldest temperature of the streak
AlertsForOldestOfStreak(config, table) ==
    IF config.consecutive_updates < 0
    THEN <<>>
    ELSE LET recent_entries == RecentEntries(config, table)
             recent_temps ==
                 [i \in 1..Len(recent_entries) |->
                     convert_temperature(recent_entries[i].temp, config.unit)]
         IN  IF Len(recent_entries) < config.consecutive_updates
             THEN <<>>
             ELSE IF \A i \in 1..Len(recent_temps) : recent_temps[i] > config.threshold
             THEN IF recent_temps = <<>>
                  THEN <<>>
                  ELSE <<AlertMessage(config, recent_temps[Len(recent_temps)])>>
             ELSE <<>>

\* the list check_alerts_in_app returns for the config row it read
AlertsFor(config, table) ==
    IF config.consecutive_updates < 0
    THEN <<>>   \* LIMIT must not be negative: the query raises, alerts is returned
    ELSE LET recent_entries == RecentEntries(config, table)
             recent_temps ==
                 [i \in 1..Len(recent_entries) |->
                     convert_temperature(recent_entries[i].temp, config.unit)]
         IN  IF Len(recent_entries) < config.consecutive_updates
             THEN <<>>
             ELSE IF \A i \in 1..Len(recent_temps) : recent_temps[i] > config.threshold
             THEN IF recent_temps = <<>>
                  THEN <<>>   \* recent_temps[0] raises IndexError, alerts is returned
                  ELSE <<AlertMessage(config, recent_temps[1])>>
             ELSE <<>>

\* a variant that keeps silent after an evaluation that returned an alert
check_alerts_in_app_debounced ==
    /\ IF read_user_config = {} \/ alerts # <<>>
       THEN alerts' = <<>>
       ELSE \E config \in read_user_config : alerts' = AlertsFor(config, weather_data)
    /\ UNCHANGED <<tables, weather_data, daily_summary, user_config>>

check_alerts_in_app ==
    /\ IF read_user_config = {}
       THEN alerts' = <<>>
       ELSE \E config \in read_user_config : alerts' = AlertsFor(config, weather_data)
    /\ UNCHANGED <<tables, weather_data, daily_summary, user_config>>

---------------------------------------------------------------------------
(* main.py: the scheduler process *)

\* get_session raises once get_engine has used up its attempts; no function of
\* main.py catches the exception, and the process ends
SchedulerStops ==
    /\ pc' = "crashed"
    /\ log' = "could_not_connect"
    /\ UNCHANGED <<now, tables, weather_data, daily_summary, user_config,
                   weather_data_list, alerts, dpc, settings, dlog, calls, args, ret, inflight>>

\* a variant without the test of weather_data_list
AfterFetchAlways(batch) == "store"

\* if weather_data_list: store and aggregate, else go on to the alert check
AfterFetch(batch) == IF batch # <<>> THEN "store" ELSE "alert"

\* setup_schedules_and_db up to its first call of get_latest_weather_info;
\* the exception initialise_tables raises again ends the process
Start ==
    /\ pc = "start"
    /\ \/ SchedulerStops
       \/ /\ \E rejected \in BOOLEAN :
               /\ initialise_tables(rejected)
               /\ pc' = IF rejected /\ "user_config" \notin tables
                         THEN "crashed"
                         ELSE "fetch"
               /\ log' = IF rejected /\ "user_config" \notin tables
                         THEN "error_creating_entry"
                         ELSE "started"
          /\ UNCHANGED <<now, weather_data_list, alerts, dpc, settings, dlog,
                         calls, args, ret, inflight>>

\* get_latest_weather_info, first statement: the first call, or the job
\* schedule.run_pending() starts
Fetch ==
    /\ pc \in {"fetch", "idle"}
    /\ Cardinality(weather_data) + Len(CITIES) <= MaxRows
    /\ \E t \in ClockReadings : \E responses \in ResponseRounds(t) :
         /\ now' = t
         /\ weather_data_list' = get_all_cities_weather(responses)
         /\ pc' = AfterFetch(weather_data_list')
         /\ log' = IF weather_data_list' = <<>>
                   THEN "no_weather_data_retrieved"
                   ELSE "retrieved"
    /\ UNCHANGED <<tables, weather_data, daily_summary, user_config,
                   alerts, dpc, settings, dlog, calls, args, ret, inflight>>

Store ==
    /\ pc = "store"
    /\ \/ SchedulerStops
       \/ /\ \E rejected \in BOOLEAN :
               store_weather_data(weather_data_list, rejected)
          /\ pc' = "aggregate"
          /\ UNCHANGED <<now, weather_data_list, alerts, dpc, settings, dlog,
                         calls, args, ret, inflight>>

Aggregate ==
    /\ pc = "aggregate"
    /\ \/ SchedulerStops
       \/ /\ \E t \in ClockReadings, rejected \in BOOLEAN :
               now' = t /\ calculate_daily_summary(t, rejected)
          /\ pc' = "alert"
          /\ UNCHANGED <<weather_data_list, alerts, dpc, settings, dlog,
                         calls, args, ret, inflight>>

Alert ==
    /\ pc = "alert"
    /\ \/ SchedulerStops
       \/ /\ check_alerts_in_app
          /\ pc' = "idle"
          /\ log' = "job_completed"
          /\ weather_data_list' = <<>>
          /\ UNCHANGED <<now, dpc, settings, dlog, calls, args, ret, inflight>>

\* the cleanup job schedule.run_pending() starts
Cleanup ==
    /\ pc = "idle"
    /\ \/ SchedulerStops
       \/ /\ \E t \in ClockReadings, rejected \in BOOLEAN :
               now' = t /\ delete_old_weather_data(t, rejected)
          /\ UNCHANGED <<pc, weather_data_list, alerts, dpc, settings, dlog,
                         calls, args, ret, inflight>>

---------------------------------------------------------------------------
(* streamlit_app.py: one render of the dashboard *)

\* get_session raises: the render ends with the exception and shows no
\* alerts, the next one starts from the top of the script
RenderStops ==
    /\ dpc' = "settings"
    /\ dlog' = "could_not_connect"
    /\ alerts' = <<>>
    /\ UNCHANGED <<now, tables, weather_data, daily_summary, user_config, pc,
                   weather_data_list, log, calls, args, ret, inflight>>

\* the widgets as they come up: first unit with its threshold, first city,
\* two consecutive updates
DefaultSettings ==
    {[city |-> CITIES[1], threshold |-> 3500, unit |-> TEMP_UNIT_CELSIUS,
      consecutive_updates |-> 2]}

\* the widgets as a user may set them
UserSettings ==
    {[city |-> CITIES[i], threshold |-> tu[1], unit |-> tu[2],
      consecutive_updates |-> n] :
        i \in 1..Len(CITIES), tu \in ThresholdUnits, n \in 1..MaxN}

\* display_streamlit_app up to its call of update_user_config
DashboardSettings(inputs) ==
    /\ dpc = "settings"
    /\ \E s \in inputs :
         /\ settings' = <<s>>
         /\ \/ RenderStops
            \/ /\ \E rejected \in BOOLEAN :
                    update_user_config(s.city, s.threshold, s.unit,
                                       s.consecutive_updates, rejected)
               /\ dpc' = "alerts"
               /\ UNCHANGED <<now, pc, weather_data_list, alerts, log,
                              calls, args, ret, inflight>>

\* display_streamlit_app from there to its call of check_alerts_in_app
DashboardAlerts ==
    /\ dpc = "alerts"
    /\ \/ /\ RenderStops
          /\ UNCHANGED settings
       \/ /\ check_alerts_in_app
          /\ dpc' = "settings"
          /\ UNCHANGED <<now, pc, weather_data_list, log, settings, dlog,
                         calls, args, ret, inflight>>

---------------------------------------------------------------------------
(* The system: the scheduler and the dashboard *)

\* no session has begun a transaction
NoSessions == [s \in Sessions |-> [pc |-> "idle", snapshot |-> {}, new_config |-> {}]]

Init ==
    /\ now = 9
    /\ tables = {}
    /\ weather_data = {}
    /\ daily_summary = {}
    /\ user_config = {}
    /\ pc = "start"
    /\ weather_data_list = <<>>
    /\ alerts = <<>>
    /\ log = "none"
    /\ dpc = "settings"
    /\ settings = <<>>
    /\ dlog = "none"
    /\ calls = <<>>
    /\ args = <<>>
    /\ ret = <<>>
    /\ summary_run = <<>>
    /\ config_sessions = NoSessions
    /\ engine_run = <<>>

Next ==
    \/ Start
    \/ Fetch
    \/ Store
    \/ Aggregate
    \/ Alert
    \/ Cleanup
    \/ DashboardSettings(DefaultSettings)
    \/ DashboardAlerts

Spec == Init /\ [][Next]_vars

---------------------------------------------------------------------------
(* Populated stores: the tables as earlier runs of the system left them *)

\* the tables weather_data can be: at most max rows, one per (city, dt) of keys
DrawnStores(keys, weather, max) ==
    UNION {{{[city |-> k[1], dt |-> k[2], main |-> f[k].main, temp |-> f[k].temp,
              feels_like |-> f[k].feels_like] : k \in K} : f \in [K -> weather]} :
            K \in {K \in SUBSET keys : Cardinality(K) <= max}}

\* Delhi at 17h of day 0 and at the hours around the daypart boundaries of
\* day 1, Mumbai at 17h of day 1
AggKeys ==
    ({"Delhi"} \X ({17} \cup {24 + h : h \in {8, 9, 16, 17}})) \cup {<<"Mumbai", 41>>}

\* Delhi at three instants, Mumbai at the last of them
AlertKeys == ({"Delhi"} \X {9, 17, 41}) \cup {<<"Mumbai", 41>>}

\* the summary rows the run of day 0 left for the rows of day 0
EarlierSummary(table) ==
    LET rows == {r \in table : r.dt \div 24 = 0}
    IN  IF rows = {} THEN {}
        ELSE SummaryDicts(CHOOSE o \in Orders(rows) : TRUE)

InitPopulated ==
    /\ now = 41
    /\ tables = TableNames
    /\ user_config = {ALERT_THRESHOLDS}
    /\ pc = "idle"
    /\ weather_data_list = <<>>
    /\ alerts = <<>>
    /\ log = "none"
    /\ dpc = "settings"
    /\ settings = <<>>
    /\ dlog = "none"
    /\ calls = <<>>
    /\ args = <<>>
    /\ ret = <<>>
    /\ summary_run = <<>>
    /\ config_sessions = NoSessions
    /\ engine_run = <<>>

---------------------------------------------------------------------------
(* calculate_daily_summary called directly on a populated store, as        *)
(* tests/test_db_manager.py calls it                                       *)

InitAgg ==
    /\ InitPopulated
    /\ weather_data \in DrawnStores(AggKeys, {Clear, Clouds, Rain}, MaxDf)
    /\ daily_summary \in {{}, EarlierSummary(weather_data)}

\* the call returns, or get_session raises in it
SummaryCall ==
    /\ Len(calls) < MaxCalls
    /\ \/ \E t \in ClockReadings, rejected \in BOOLEAN :
            now' = t /\ calculate_daily_summary(t, rejected)
       \/ /\ log' = "could_not_connect"
          /\ UNCHANGED <<now, tables, weather_data, daily_summary, user_config>>
    /\ calls' = Append(calls, log')
    /\ UNCHANGED <<pc, weather_data_list, alerts, dpc, settings, dlog, args, ret, inflight>>

NextAgg == SummaryCall

SpecAgg == InitAgg /\ [][NextAgg]_vars

---------------------------------------------------------------------------
(* The dashboard on a fresh or a populated store, the scheduler being idle *)

InitAlert ==
    \/ Init
    \/ /\ InitPopulated
       /\ weather_data \in DrawnStores(AlertKeys, {Clear, Clouds},
                                       Cardinality(AlertKeys))
       /\ daily_summary = {}

NextAlert ==
    \/ Start
    \/ DashboardSettings(UserSettings)
    \/ DashboardAlerts

SpecAlert == InitAlert /\ [][NextAlert]_vars

---------------------------------------------------------------------------
(* update_user_config called with a consecutive_updates the widgets do not  *)
(* allow, and check_alerts_in_app after it                                  *)

\* the arguments of such callers: consecutive_updates -MaxN, 0 or 1
CallerSettings ==
    {[city |-> CITIES[i], threshold |-> tu[1], unit |-> tu[2],
      consecutive_updates |-> n] :
        i \in 1..Len(CITIES), tu \in ThresholdUnits, n \in {0 - MaxN, 0, 1}}

NextCaller ==
    \/ Start
    \/ DashboardSettings(CallerSettings)
    \/ DashboardAlerts

SpecCaller == InitAlert /\ [][NextCaller]_vars

---------------------------------------------------------------------------
(* convert_temperature and get_temperature_stats called directly, as       *)
(* tests/test_temperature_utils.py and tests/test_data_processing.py call  *)
(* them                                                                    *)

\* Kelvin values: absolute zero of the Celsius scale, around zero, the
\* freezing point, 35 C and just above 100 C
Kelvins == {0 - 27315, 0 - 1, 0, 1, 27315, 30815, 37316}

\* unit strings: the three known ones, and three unknown ones
UnitStrings ==
    {TEMP_UNIT_CELSIUS, TEMP_UNIT_FAHRENHEIT, TEMP_UNIT_KELVIN,
     "Rankine", "celsius", ""}

\* the readings of Delhi on day 1, one per hour from midnight on, whose
\* observations obs gives
ReadingsOfDay(obs) ==
    [i \in 1..Len(obs) |->
        [city |-> "Delhi", dt |-> 24 + i - 1, main |-> obs[i].main,
         temp |-> obs[i].temp, feels_like |-> obs[i].feels_like]]

InitPure ==
    /\ InitPopulated
    /\ weather_data = {}
    /\ daily_summary = {}

ConvertCall ==
    /\ \E kelvin \in Kelvins, to_unit \in UnitStrings :
         /\ args' = <<"convert_temperature", kelvin, to_unit>>
         /\ ret' = <<[value |-> convert_temperature(kelvin, to_unit)]>>
    /\ UNCHANGED <<now, tables, weather_data, daily_summary, user_config, pc,
                   weather_data_list, alerts, log, dpc, settings, dlog, calls, inflight>>

StatsCall ==
    /\ \E n \in 1..MaxReadings : \E obs \in [1..n -> {Haze, Rain}] :
         /\ args' = <<"get_temperature_stats", ReadingsOfDay(obs)>>
         /\ ret' = get_temperature_stats(
                      process_daily_weather_data(ReadingsOfDay(obs)))
    /\ UNCHANGED <<now, tables, weather_data, daily_summary, user_config, pc,
                   weather_data_list, alerts, log, dpc, settings, dlog, calls, inflight>>

NextPure ==
    \/ ConvertCall
    \/ StatsCall

SpecPure == InitPure /\ [][NextPure]_vars

---------------------------------------------------------------------------
(* delete_old_weather_data called directly on a populated store, as         *)
(* tests/test_db_manager.py calls it                                        *)

InitSweep ==
    /\ InitPopulated
    /\ weather_data \in DrawnStores(AlertKeys, {Clear, Clouds},
                                    Cardinality(AlertKeys))
    /\ daily_summary = EarlierSummary(weather_data)

\* the call returns, or get_session raises in it
SweepCall ==
    /\ Len(calls) < MaxCalls
    /\ \/ \E t \in ClockReadings, rejected \in BOOLEAN :
            now' = t /\ delete_old_weather_data(t, rejected)
       \/ /\ log' = "could_not_connect"
          /\ UNCHANGED <<now, tables, weather_data, daily_summary, user_config>>
    /\ calls' = Append(calls, log')
    /\ UNCHANGED <<pc, weather_data_list, alerts, dpc, settings, dlog, args, ret, inflight>>

NextSweep == SweepCall

SpecSweep == InitSweep /\ [][NextSweep]_vars

---------------------------------------------------------------------------
(* update_user_config and check_alerts_in_app called directly, one after    *)
(* the other, as tests/test_db_manager.py calls them                        *)

InitEval ==
    /\ InitPopulated
    /\ weather_data \in DrawnStores(AlertKeys, {Clear, Clouds},
                                    Cardinality(AlertKeys))
    /\ daily_summary = EarlierSummary(weather_data)

ConfigCall ==
    /\ \E s \in UserSettings, rejected \in BOOLEAN :
         update_user_config(s.city, s.threshold, s.unit, s.consecutive_updates,
                            rejected)
    /\ UNCHANGED <<now, pc, weather_data_list, alerts, log, dpc, settings,
                   calls, args, ret, inflight>>

\* the call returns its list, or get_session raises in it
EvalCall ==
    /\ Len(calls) < MaxCalls
    /\ \/ /\ check_alerts_in_app
          /\ calls' = Append(calls, IF alerts' = <<>> THEN "no_alert" ELSE "alert")
       \/ /\ calls' = Append(calls, "could_not_connect")
          /\ UNCHANGED <<tables, weather_data, daily_summary, user_config, alerts>>
    /\ UNCHANGED <<now, pc, weather_data_list, log, dpc, settings, dlog, args, ret, inflight>>

NextEval ==
    \/ ConfigCall
    \/ EvalCall

SpecEval == InitEval /\ [][NextEval]_vars

---------------------------------------------------------------------------
(* calculate_daily_summary and delete_old_weather_data run by two           *)
(* processes: the sweep's transaction may commit before the query of the    *)
(* summary, between its query and its write, or after its write             *)

\* Delhi at the hours 9 and 17 of day 0 and 8 and 17 of day 2, Mumbai at 17h
\* of day 2
InterleaveKeys == ({"Delhi"} \X {9, 17, 56, 65}) \cup {<<"Mumbai", 65>>}

\* the store at 17h of day 2
InitInterleave ==
    /\ now = 2 * 24 + 17
    /\ tables = TableNames
    /\ weather_data \in DrawnStores(InterleaveKeys, {Clear, Rain}, MaxDf)
    /\ daily_summary \in {{}, EarlierSummary(weather_data)}
    /\ user_config = {ALERT_THRESHOLDS}
    /\ pc = "idle"
    /\ weather_data_list = <<>>
    /\ alerts = <<>>
    /\ log = "none"
    /\ dpc = "settings"
    /\ settings = <<>>
    /\ dlog = "none"
    /\ calls = <<>>
    /\ args = <<>>
    /\ ret = <<>>
    /\ summary_run = <<>>
    /\ config_sessions = NoSessions
    /\ engine_run = <<>>

\* a run of calculate_daily_summary is past its query and not past its write
SummaryInFlight == summary_run # <<>> /\ summary_run[1].pc = "queried"

\* the clock readings of a sweep: a run of calculate_daily_summary takes
\* less than a day from its query to its write
SweepReadings ==
    {t \in ClockReadings : SummaryInFlight => t - now <= 24}

\* calculate_daily_summary up to its query's .all(); deleted collects the
\* rows sweeps delete while the run is in flight
SummaryQuery ==
    /\ ~SummaryInFlight
    /\ Len(calls) < MaxCalls
    /\ \E t \in ClockReadings :
         LET today == t \div 24
             todays == {r \in weather_data : r.dt \div 24 = today}
         IN  /\ now' = t
             /\ IF todays = {}
                THEN /\ log' = "no_data_for_summary"
                     /\ calls' = Append(calls, log')
                     /\ UNCHANGED summary_run
                ELSE /\ \E results \in Orders(todays) :
                          summary_run' = <<[today |-> today, results |-> results,
                                            pc |-> "queried", deleted |-> {}]>>
                     /\ UNCHANGED <<log, calls>>
    /\ UNCHANGED <<tables, weather_data, daily_summary, user_config, pc,
                   weather_data_list, alerts, dpc, settings, dlog, args, ret,
                   config_sessions, engine_run>>

\* calculate_daily_summary from there to its end
SummaryWrite ==
    /\ SummaryInFlight
    /\ \E rejected \in BOOLEAN :
         LET summary_dicts == SummaryDicts(summary_run[1].results)
         IN  IF rejected
             THEN /\ log' = "error_summary"
                  /\ UNCHANGED daily_summary
             ELSE IF summary_dicts = {}
             THEN /\ log' = "no_summaries"
                  /\ UNCHANGED daily_summary
             ELSE /\ daily_summary' = SummaryUpsert(daily_summary, summary_dicts)
                  /\ log' = "summary_upserted"
    /\ calls' = Append(calls, log')
    /\ summary_run' = <<[summary_run[1] EXCEPT !.pc = "written"]>>
    /\ UNCHANGED <<now, tables, weather_data, user_config, pc,
                   weather_data_list, alerts, dpc, settings, dlog, args, ret,
                   config_sessions, engine_run>>

\* delete_old_weather_data in the other process
InterleavedSweep ==
    /\ \E t \in SweepReadings, rejected \in BOOLEAN :
         now' = t /\ delete_old_weather_data(t, rejected)
    /\ summary_run' =
         IF SummaryInFlight
         THEN <<[summary_run[1] EXCEPT
                    !.deleted = @ \cup (weather_data \ weather_data')]>>
         ELSE summary_run
    /\ UNCHANGED <<pc, weather_data_list, alerts, dpc, settings, dlog, calls,
                   args, ret, config_sessions, engine_run>>

NextInterleave ==
    \/ SummaryQuery
    \/ SummaryWrite
    \/ InterleavedSweep

SpecInterleave == InitInterleave /\ [][NextInterleave]_vars

---------------------------------------------------------------------------
(* initialise_tables called directly, on a store with no, some or all       *)
(* tables, as tests/test_db_manager.py calls it                             *)

\* no process is in a call
ProcessesIdle ==
    /\ pc = "idle"
    /\ weather_data_list = <<>>
    /\ alerts = <<>>
    /\ log = "none"
    /\ dpc = "settings"
    /\ settings = <<>>
    /\ dlog = "none"
    /\ calls = <<>>
    /\ args = <<>>
    /\ ret = <<>>
    /\ summary_run = <<>>
    /\ config_sessions = NoSessions
    /\ engine_run = <<>>

\* a table that exists holds rows or none; user_config holds the default
\* row, a row of the dashboard, or none after a first run whose insert failed
InitStart ==
    /\ now = 41
    /\ tables \in SUBSET TableNames
    /\ weather_data \in
         IF "weather_data" \in tables
         THEN DrawnStores(AlertKeys, {Clear, Clouds}, MaxDf)
         ELSE {{}}
    /\ daily_summary =
         IF "daily_summary" \in tables THEN EarlierSummary(weather_data) ELSE {}
    /\ user_config \in
         IF "user_config" \in tables
         THEN {{}, {ALERT_THRESHOLDS}} \cup {{s} : s \in DefaultSettings}
         ELSE {{}}
    /\ ProcessesIdle

\* what a run of initialise_tables printed last
LastPrinted(rejected) ==
    IF "user_config" \notin tables
    THEN IF rejected THEN "error_creating_entry" ELSE "created_user_config"
    ELSE IF "daily_summary" \notin tables THEN "created_daily_summary"
    ELSE IF "weather_data" \notin tables THEN "created_weather_data"
    ELSE "none"

\* the call returns or raises what the insert raised, or get_engine raises
\* in it
InitialiseCall ==
    /\ Len(calls) < MaxCalls
    /\ \/ \E rejected \in BOOLEAN :
            /\ initialise_tables(rejected)
            /\ log' = LastPrinted(rejected)
       \/ /\ log' = "could_not_connect"
          /\ UNCHANGED <<tables, weather_data, daily_summary, user_config>>
    /\ calls' = Append(calls, log')
    /\ UNCHANGED <<now, pc, weather_data_list, alerts, dpc, settings, dlog,
                   args, ret, inflight>>

NextStart == InitialiseCall

SpecStart == InitStart /\ [][NextStart]_vars

---------------------------------------------------------------------------
(* update_user_config called by the renders of two dashboard sessions, each *)
(* in a transaction of its own (READ COMMITTED): the DELETE removes the     *)
(* rows committed when it started, the INSERT and the COMMIT follow         *)

\* what the widgets of the two sessions may hold: the defaults, for each city
SessionSettings ==
    {[city |-> CITIES[i], threshold |-> 3500, unit |-> TEMP_UNIT_CELSIUS,
      consecutive_updates |-> 2] : i \in 1..Len(CITIES)}

InitSessions ==
    /\ InitPopulated
    /\ weather_data = {}
    /\ daily_summary = {}

\* a transaction of session s is open
InTransaction(s) == config_sessions[s].pc \in {"deleted", "inserted"}

\* the rows committed by others that the DELETE of session s did not see
Unseen(s) == user_config \ config_sessions[s].snapshot

\* get_session and session.query(UserConfig).delete(): the statement sees
\* the rows committed before it; get_session raises, or the statement is
\* refused and the except branch rolls back
SessionDelete(s) ==
    /\ ~InTransaction(s)
    /\ \/ \E c \in SessionSettings :
            /\ config_sessions' =
                 [config_sessions EXCEPT
                    ![s] = [pc |-> "deleted", snapshot |-> user_config,
                            new_config |-> {c}]]
            /\ UNCHANGED dlog
       \/ /\ config_sessions' =
               [config_sessions EXCEPT
                  ![s] = [pc |-> "failed", snapshot |-> {}, new_config |-> {}]]
          /\ dlog' \in {"could_not_connect", "error_updating"}
    /\ UNCHANGED <<now, tables, weather_data, daily_summary, user_config, pc,
                   weather_data_list, alerts, log, dpc, settings, calls,
                   args, ret, summary_run, engine_run>>

\* session.add(new_config) and the INSERT that commit() flushes: a committed
\* row with the same primary key that the DELETE did not see violates the key
SessionInsert(s) ==
    /\ config_sessions[s].pc = "deleted"
    /\ IF config_sessions[s].new_config \subseteq Unseen(s)
       THEN /\ config_sessions' = [config_sessions EXCEPT ![s].pc = "failed"]
            /\ dlog' = "error_updating"
       ELSE /\ config_sessions' = [config_sessions EXCEPT ![s].pc = "inserted"]
            /\ UNCHANGED dlog
    /\ UNCHANGED <<now, tables, weather_data, daily_summary, user_config, pc,
                   weather_data_list, alerts, log, dpc, settings, calls,
                   args, ret, summary_run, engine_run>>

\* the COMMIT: the rows the DELETE saw go, if still there, and the new row
\* comes; or the commit is refused, or the key is violated by a row committed
\* since the INSERT, and the except branch rolls back
SessionCommit(s) ==
    /\ config_sessions[s].pc = "inserted"
    /\ \E rejected \in BOOLEAN :
         IF rejected \/ config_sessions[s].new_config \subseteq Unseen(s)
         THEN /\ config_sessions' = [config_sessions EXCEPT ![s].pc = "failed"]
              /\ dlog' = "error_updating"
              /\ UNCHANGED user_config
         ELSE /\ config_sessions' = [config_sessions EXCEPT ![s].pc = "committed"]
              /\ user_config' = Unseen(s) \cup config_sessions[s].new_config
              /\ dlog' = "updated"
    /\ UNCHANGED <<now, tables, weather_data, daily_summary, pc,
                   weather_data_list, alerts, log, dpc, settings, calls,
                   args, ret, summary_run, engine_run>>

NextSessions ==
    \E s \in Sessions :
        \/ SessionDelete(s)
        \/ SessionInsert(s)
        \/ SessionCommit(s)

SpecSessions == InitSessions /\ [][NextSessions]_vars

---------------------------------------------------------------------------
(* get_engine: the loop of connection attempts, one step per connect() and  *)
(* one per sleep                                                            *)

\* retries = 5
retries == 5

\* the functions that call get_engine
EngineCallers == {"initialise_tables", "get_session"}

\* a variant whose loop goes round once more
LoopGoesOnOnceMore(i) == i + 1 <= retries

\* for i in range(retries): there is a next iteration after iteration i
LoopGoesOn(i) == i + 1 < retries

\* a call of get_engine is in its loop
EngineInLoop ==
    engine_run # <<>> /\ engine_run[1].pc \in {"connecting", "sleeping"}

\* get_engine is called: i = 0, before the first create_engine
EngineCall ==
    /\ ~EngineInLoop
    /\ Len(calls) < MaxCalls
    /\ \E caller \in EngineCallers :
         engine_run' = <<[caller |-> caller, i |-> 0, attempts |-> 0,
                          pc |-> "connecting"]>>
    /\ UNCHANGED <<now, tables, weather_data, daily_summary, user_config, pc,
                   weather_data_list, alerts, log, dpc, settings, dlog, calls,
                   args, ret, summary_run, config_sessions>>

\* create_engine and engine.connect(): the engine is returned, or
\* OperationalError is caught and the message printed, or another exception
\* leaves the function
EngineAttempt ==
    /\ engine_run # <<>>
    /\ engine_run[1].pc = "connecting"
    /\ \E outcome \in {"returned", "sleeping", "propagated"} :
         /\ engine_run' = <<[engine_run[1] EXCEPT
                                !.attempts = @ + 1, !.pc = outcome]>>
         /\ calls' = IF outcome = "sleeping" THEN calls ELSE Append(calls, outcome)
    /\ UNCHANGED <<now, tables, weather_data, daily_summary, user_config, pc,
                   weather_data_list, alerts, log, dpc, settings, dlog,
                   args, ret, summary_run, config_sessions>>

\* time.sleep(5) ends: the next iteration, or the raise after the loop
EngineWake ==
    /\ engine_run # <<>>
    /\ engine_run[1].pc = "sleeping"
    /\ IF LoopGoesOn(engine_run[1].i)
       THEN /\ engine_run' = <<[engine_run[1] EXCEPT
                                   !.i = @ + 1, !.pc = "connecting"]>>
            /\ UNCHANGED calls
       ELSE /\ engine_run' = <<[engine_run[1] EXCEPT !.pc = "raised"]>>
            /\ calls' = Append(calls, "raised")
    /\ UNCHANGED <<now, tables, weather_data, daily_summary, user_config, pc,
                   weather_data_list, alerts, log, dpc, settings, dlog,
                   args, ret, summary_run, config_sessions>>

NextEngine ==
    \/ EngineCall
    \/ EngineAttempt
    \/ EngineWake

\* connect() returns or raises and sleep(5) ends: the loop is sequential code
SpecEngine ==
    /\ InitSessions
    /\ [][NextEngine]_vars
    /\ WF_vars(EngineAttempt)
    /\ WF_vars(EngineWake)

---------------------------------------------------------------------------
(* Properties *)

Today == now \div 24

ReadingsOf(city) == {r \in weather_data : r.city = city}

ReadingsOn(city, date) == {r \in ReadingsOf(city) : r.dt \div 24 = date}

StoredCities == {r.city : r \in weather_data}

\* the n readings of a city with the greatest observed-at
MostRecent(city, n) ==
    {r \in ReadingsOf(city) : Cardinality({o \in ReadingsOf(city) : o.dt > r.dt}) < n}

Exceeds(r, config) == convert_temperature(r.temp, config.unit) > config.threshold

\* a render of the dashboard has run to its end
RenderDone == dpc = "settings" /\ dlog \in {"updated", "error_updating"}

\* the summed daypart weight of a condition over a city's readings of a date
ConditionWeight(city, date, main) ==
    LET rows == {r \in ReadingsOn(city, date) : r.main = main}
        day == {r \in rows : 9 <= r.dt % 24 /\ r.dt % 24 < 17}
    IN  2 * Cardinality(day) + Cardinality(rows \ day)

\* the conditions of maximal summed weight
HeaviestConditions(city, date) ==
    LET mains == {r.main : r \in ReadingsOn(city, date)}
    IN  {m \in mains : \A o \in mains :
            ConditionWeight(city, date, o) <= ConditionWeight(city, date, m)}

RECURSIVE SumOfTemps(_)
SumOfTemps(rows) ==
    IF rows = {} THEN 0
    ELSE LET r == CHOOSE x \in rows : TRUE
         IN  r.temp + SumOfTemps(rows \ {r})

SummaryRows(city, date) == {s \in daily_summary : s.city = city /\ s.date = date}

\* the step in which store_weather_data runs
StoreStep == pc = "store" /\ pc' = "aggregate"

\* the step in which the fetch of a tick runs
FetchStep == pc \in {"fetch", "idle"} /\ pc' \in {"store", "alert"}

\* C1: store_weather_data is an upsert: when the batch holds a reading whose
\* (city, dt) is already stored and the database does not refuse the statement,
\* the call succeeds and every reading of the batch is stored with the new
\* values, one row per identity.
C1_StoreIsUpsert ==
    [][(/\ StoreStep
        /\ log' # "error_inserting_operational"
        /\ \E i \in 1..Len(weather_data_list) : \E r \in weather_data :
              SameReading(r, weather_data_list[i]))
       => (/\ log' = "upserted"
           /\ \A i \in 1..Len(weather_data_list) :
                /\ weather_data_list[i] \in weather_data'
                /\ Cardinality({r \in weather_data' :
                                   SameReading(r, weather_data_list[i])}) = 1)]_vars

\* C2: with consecutive_updates N >= 1 and at least N readings of the
\* configured city, check_alerts_in_app returns exactly one message if each of
\* the N most recent readings of that city converts to more than the threshold,
\* and none otherwise.
C2_AlertIffStreak ==
    RenderDone =>
        \A c \in user_config :
            (/\ c.consecutive_updates >= 1
             /\ Cardinality(ReadingsOf(c.city)) >= c.consecutive_updates)
            => IF \A r \in MostRecent(c.city, c.consecutive_updates) : Exceeds(r, c)
               THEN Len(alerts) = 1
               ELSE alerts = <<>>

\* an alert for a streak of two, with an older reading of the city and a reading
\* of another city that do not exceed the threshold
C2_Witness ==
    /\ RenderDone
    /\ Len(alerts) = 1
    /\ \E c \in user_config :
         /\ c.consecutive_updates = 2
         /\ \E r \in ReadingsOf(c.city) \ MostRecent(c.city, 2) : ~Exceeds(r, c)
         /\ \E r \in weather_data : r.city # c.city /\ ~Exceeds(r, c)

\* C3: with fewer than consecutive_updates readings of the configured city,
\* check_alerts_in_app returns the empty list, whatever their temperatures.
C3_TooFewReadings ==
    RenderDone =>
        \A c \in user_config :
            Cardinality(ReadingsOf(c.city)) < c.consecutive_updates => alerts = <<>>

\* one reading above the threshold where two are required
C3_Witness ==
    /\ RenderDone
    /\ alerts = <<>>
    /\ \E c \in user_config :
         /\ c.consecutive_updates = 2
         /\ Cardinality(ReadingsOf(c.city)) = 1
         /\ \A r \in ReadingsOf(c.city) : Exceeds(r, c)

\* the step in which initialise_tables runs
StartStep == pc = "start" /\ pc' # "start"

\* the step in which an update_user_config commits
UpdatedStep == dpc = "settings" /\ dpc' = "alerts" /\ dlog' = "updated"

\* C4: once initialise_tables has returned, user_config holds exactly one row;
\* read_user_config returns the defaults after initialise_tables on an empty
\* store, the arguments of an update_user_config once it commits, and what it
\* returned before after every other step.
C4_SingleConfig ==
    /\ []("user_config" \in tables /\ pc # "crashed" => Cardinality(user_config) = 1)
    /\ [][/\ StartStep /\ tables = {} /\ pc' # "crashed" =>
                read_user_config' = {ALERT_THRESHOLDS}
          /\ UpdatedStep => read_user_config' = {settings'[1]}
          /\ ~StartStep /\ ~UpdatedStep => read_user_config' = read_user_config]_vars

\* an update that failed after one with other arguments had committed
C4_Witness ==
    /\ pc = "fetch"
    /\ dlog = "error_updating"
    /\ "user_config" \in tables
    /\ user_config # {ALERT_THRESHOLDS}
    /\ settings # <<>>
    /\ user_config # {settings[1]}

\* C5: the dominant condition of every summary row is a condition whose summed
\* daypart weight over the city's readings of that date is maximal, a reading
\* weighing 2 at hours 9 to 16 and 1 otherwise.
C5_DominantIsHeaviest ==
    \A s \in daily_summary :
        s.dominant_condition \in HeaviestConditions(s.city, s.date)

\* a condition read once at 9h or 16h wins over an alphabetically earlier one
\* read once at 8h or 17h
C5_Witness ==
    \E s \in daily_summary : \E r1, r2 \in ReadingsOn(s.city, s.date) :
        /\ ReadingsOn(s.city, s.date) = {r1, r2}
        /\ r1.main = s.dominant_condition
        /\ r1.dt % 24 \in {9, 16}
        /\ r2.dt % 24 \in {8, 17}
        /\ StrLess(r2.main, r1.main)

\* C6: among conditions of the same maximal summed weight the dominant
\* condition is the alphabetically first, in whatever order the readings come.
C6_TieIsAlphabetical ==
    \A s \in daily_summary : \A m \in HeaviestConditions(s.city, s.date) :
        ~StrLess(m, s.dominant_condition)

\* a summary row of a city and date with two conditions of maximal weight
C6_Witness ==
    /\ log = "summary_upserted"
    /\ \E s \in daily_summary :
         /\ s.date = Today
         /\ Cardinality(HeaviestConditions(s.city, s.date)) >= 2

\* C7: after calculate_daily_summary succeeds, every city with a reading dated
\* today has exactly one summary row keyed (city, today), whose avg_temp,
\* max_temp and min_temp are the mean, maximum and minimum of that city's
\* readings of today, the mean being their sum over their number as floats.
C7_SummaryStats ==
    log = "summary_upserted" =>
        \A city \in StoredCities :
            LET rows == ReadingsOn(city, Today)
            IN  rows # {} =>
                  /\ Cardinality(SummaryRows(city, Today)) = 1
                  /\ \A s \in SummaryRows(city, Today) :
                       /\ \E r \in rows : r.temp = s.max_temp
                       /\ \A r \in rows : r.temp <= s.max_temp
                       /\ \E r \in rows : r.temp = s.min_temp
                       /\ \A r \in rows : s.min_temp <= r.temp
                       /\ s.avg_temp = FloatRound(FloatRound(SumOfTemps(rows), 1),
                                                  Cardinality(rows))

\* two cities summarised, one of them from two readings of different
\* temperatures, the other from a reading of yet another temperature
C7_Witness ==
    /\ log = "summary_upserted"
    /\ \E c1, c2 \in StoredCities :
         /\ c1 # c2
         /\ \E r1, r2 \in ReadingsOn(c1, Today) : r1.temp # r2.temp
         /\ \E r \in ReadingsOn(c2, Today) :
              \A o \in ReadingsOn(c1, Today) : o.temp # r.temp

\* C8: a run of calculate_daily_summary that follows a successful run on the
\* same readings leaves daily_summary as that run left it.
C8_SummaryIdempotent ==
    [][(/\ calls # <<>>
        /\ calls[Len(calls)] = "summary_upserted"
        /\ calls' = Append(calls, "summary_upserted")
        /\ weather_data' = weather_data)
       => daily_summary' = daily_summary]_vars

\* two successful runs in a row
C8_Witness ==
    /\ Len(calls) >= 2
    /\ calls[1] = "summary_upserted"
    /\ calls[2] = "summary_upserted"
    /\ SummaryRows("Delhi", Today) # {}

\* C9: after delete_old_weather_data has run at time now no stored reading is
\* older than now minus 2 days, and the run keeps every reading that is not.
C9_Retention ==
    /\ [](log = "deleted_old" => \A r \in weather_data : r.dt >= now - 2 * 24)
    /\ [][log' = "deleted_old" =>
            \A r \in weather_data : r.dt >= now' - 2 * 24 => r \in weather_data']_vars

\* after a sweep: the readings a summary was made of are gone, a reading
\* exactly two days old is kept
C9_Witness ==
    /\ log = "deleted_old"
    /\ \E s \in daily_summary : ReadingsOn(s.city, s.date) = {}
    /\ \E r \in weather_data : r.dt = now - 2 * 24

\* C10: in a tick whose fetch fails for every city neither store_weather_data
\* nor calculate_daily_summary runs: the tick goes from the fetch to the alert
\* check, and weather_data and daily_summary stay as they are until it ends.
C10_NothingFetched ==
    [][/\ (FetchStep /\ weather_data_list' = <<>>) =>
             /\ pc' = "alert"
             /\ weather_data' = weather_data
             /\ daily_summary' = daily_summary
       /\ (pc = "alert" /\ weather_data_list = <<>>) =>
             /\ pc' \in {"alert", "idle", "crashed"}
             /\ weather_data' = weather_data
             /\ daily_summary' = daily_summary]_vars

\* the alert check of a tick that fetched nothing, on a store that holds
\* readings and summaries
C10_Witness ==
    /\ pc = "alert"
    /\ log = "no_weather_data_retrieved"
    /\ weather_data_list = <<>>
    /\ weather_data # {}
    /\ daily_summary # {}

\* C11: in a tick in which some cities' fetches fail and others succeed, the
\* tick goes on, and unless the database refuses the statement every fetched
\* reading is stored with its fetched values and stays stored until the tick ends.
C11_PartialFetchStored ==
    [][/\ (/\ pc = "store" /\ pc' # "store"
           /\ Len(weather_data_list) < Len(CITIES)
           /\ log' \notin {"error_inserting_operational", "could_not_connect"})
          => /\ pc' = "aggregate"
             /\ \A i \in 1..Len(weather_data_list) :
                  weather_data_list[i] \in weather_data'
       /\ pc \in {"aggregate", "alert"} => weather_data' = weather_data]_vars

\* the step in which calculate_daily_summary runs in a tick
AggregateStep == pc = "aggregate" /\ pc' = "alert"

\* C12: a store_weather_data that fails leaves weather_data exactly as it was,
\* and a calculate_daily_summary that fails leaves daily_summary exactly as it
\* was.
C12_FailedWriteRolledBack ==
    [][/\ (StoreStep /\ log' \in {"error_inserting_integrity",
                                    "error_inserting_operational"})
             => weather_data' = weather_data
       /\ (AggregateStep /\ log' = "error_summary")
             => daily_summary' = daily_summary]_vars

\* a tick whose batch held a stored identity and a new one, and whose summary
\* was refused: the new reading is not stored, today's reading has no summary
C12_Witness ==
    /\ pc = "alert"
    /\ log = "error_summary"
    /\ \E i \in 1..Len(weather_data_list) : weather_data_list[i] \notin weather_data
    /\ \E j \in 1..Len(weather_data_list) : \E r \in weather_data :
         SameReading(r, weather_data_list[j])
    /\ \E r \in weather_data :
         r.dt \div 24 = Today /\ SummaryRows(r.city, Today) = {}

\* C13: a connection failure in a tick or in a sweep is logged and the
\* scheduler goes on: its process does not end.
C13_SchedulerSurvives ==
    [][(pc \in {"store", "aggregate", "alert", "idle"} /\ log' = "could_not_connect")
       => pc' # "crashed"]_vars

\* C14: with a consecutive_updates of 0 or less check_alerts_in_app returns
\* the empty list, whatever readings are stored.
C14_NonPositiveNoAlert ==
    RenderDone =>
        \A c \in user_config : c.consecutive_updates <= 0 => alerts = <<>>

\* a negative consecutive_updates, and every stored reading of the city above
\* the threshold
C14_Witness ==
    /\ RenderDone
    /\ alerts = <<>>
    /\ \E c \in user_config :
         /\ c.consecutive_updates < 0
         /\ ReadingsOf(c.city) # {}
         /\ \A r \in ReadingsOf(c.city) : Exceeds(r, c)

\* C15: convert_temperature(k, unit) is k - 273.15 for Celsius,
\* (k - 273.15) * 9 / 5 + 32 for Fahrenheit (to the hundredth), and k for
\* Kelvin and for every other unit string, for every k, zero and negative
\* ones too.
C15_ConvertTemperature ==
    (args # <<>> /\ args[1] = "convert_temperature") =>
        LET k == args[2]
            unit == args[3]
            v == ret[1].value
        IN  /\ unit = "Celsius" => v = k - 27315
            /\ unit = "Fahrenheit" =>
                  /\ 5 * (v - 3200) <= 9 * (k - 27315)
                  /\ 9 * (k - 27315) < 5 * (v - 3200) + 5
            /\ unit \notin {"Celsius", "Fahrenheit"} => v = k

\* a negative Kelvin value converted to an unknown unit
C15_Witness ==
    /\ args # <<>>
    /\ args[1] = "convert_temperature"
    /\ args[2] < 0
    /\ args[3] = "Rankine"
    /\ ret = <<[value |-> args[2]]>>

\* C16: every summary row, stored or computed by get_temperature_stats, has
\* min_temp <= avg_temp <= max_temp, and no two stored rows share (city, date).
C16_AvgBetweenMinAndMax ==
    /\ \A s \in daily_summary : s.min_temp <= s.avg_temp /\ s.avg_temp <= s.max_temp
    /\ \A s, t \in daily_summary : SameSummary(s, t) => s = t
    /\ (args # <<>> /\ args[1] = "get_temperature_stats") =>
          \A i \in 1..Len(ret) :
              ret[i].min_temp <= ret[i].avg_temp /\ ret[i].avg_temp <= ret[i].max_temp

\* C17: a step changes no summary row of another date than the current one:
\* the rows calculate_daily_summary inserts or overwrites are of the current
\* date, and no step of the scheduler or of the dashboard removes a summary row.
C17_OtherDatesUntouched ==
    [][/\ \A s \in daily_summary : s.date # now' \div 24 => s \in daily_summary'
       /\ \A s \in daily_summary' \ daily_summary : s.date = now' \div 24
       /\ \A s \in daily_summary : \E t \in daily_summary' : SameSummary(s, t)]_vars

\* a summary written on a later day than a stored one, whose readings a sweep
\* has deleted
C17_Witness ==
    /\ pc = "alert"
    /\ log = "summary_upserted"
    /\ \E s \in daily_summary : s.date = Today
    /\ \E s \in daily_summary : s.date < Today /\ ReadingsOn(s.city, s.date) = {}

\* C18: a delete_old_weather_data that follows a successful one, no stored
\* reading being older than its horizon, leaves weather_data as it is; and no
\* call of delete_old_weather_data changes daily_summary or user_config.
C18_SweepIdempotent ==
    [][/\ (/\ calls # <<>>
           /\ calls[Len(calls)] = "deleted_old"
           /\ calls' = Append(calls, "deleted_old")
           /\ \A r \in weather_data : r.dt >= now' - CutoffHours)
          => weather_data' = weather_data
       /\ calls' # calls =>
             /\ daily_summary' = daily_summary
             /\ user_config' = user_config]_vars

\* two successful sweeps in a row: a reading exactly at the horizon is kept,
\* and so is the summary of a day of which one reading of two is gone
C18_Witness ==
    /\ calls = <<"deleted_old", "deleted_old">>
    /\ \E r \in weather_data : r.dt = now - CutoffHours
    /\ \E s \in daily_summary :
         /\ s.min_temp < s.max_temp
         /\ Cardinality(ReadingsOn(s.city, s.date)) = 1

\* C19: the message of an alert carries the converted temperature of the
\* reading of the configured city with the greatest dt, and the city, the
\* threshold, the unit and the consecutive_updates of the config.
C19_MessageOfLatestReading ==
    (RenderDone /\ alerts # <<>>) =>
        \A c \in user_config :
            /\ alerts[1].city = c.city
            /\ alerts[1].threshold = c.threshold
            /\ alerts[1].unit = c.unit
            /\ alerts[1].consecutive_updates = c.consecutive_updates
            /\ \A r \in MostRecent(c.city, 1) :
                  alerts[1].current_temp = convert_temperature(r.temp, c.unit)

\* an alert for a streak of two whose older reading converts to another
\* temperature than the latest
C19_Witness ==
    /\ RenderDone
    /\ Len(alerts) = 1
    /\ \E c \in user_config :
         /\ c.consecutive_updates = 2
         /\ \E r \in MostRecent(c.city, 1) : \E o \in MostRecent(c.city, 2) :
              /\ convert_temperature(o.temp, c.unit) # convert_temperature(r.temp, c.unit)
              /\ alerts[1].current_temp = convert_temperature(r.temp, c.unit)

\* the firing condition on the stored config row c and the stored readings
Fires(c) ==
    /\ c.consecutive_updates >= 1
    /\ Cardinality(ReadingsOf(c.city)) >= c.consecutive_updates
    /\ \A r \in MostRecent(c.city, c.consecutive_updates) : Exceeds(r, c)

\* a call of check_alerts_in_app that returns
EvalStep ==
    /\ calls' # calls
    /\ calls'[Len(calls')] # "could_not_connect"

\* C20: what check_alerts_in_app returns depends on the stored config and the
\* stored readings only: one alert whenever the firing condition holds, none
\* whenever it does not, whatever the evaluation before returned; and the call
\* changes no reading, summary or config.
C20_EvaluationStateless ==
    [][EvalStep =>
         /\ \A c \in user_config :
              IF Fires(c) THEN Len(alerts') = 1 ELSE alerts' = <<>>
         /\ weather_data' = weather_data
         /\ daily_summary' = daily_summary
         /\ user_config' = user_config]_vars

\* two evaluations in a row that returned an alert, on a store with a summary
C20_Witness ==
    /\ calls = <<"alert", "alert">>
    /\ Len(alerts) = 1
    /\ daily_summary # {}
    /\ \E c \in user_config : Fires(c)

\* the step in which a run of calculate_daily_summary commits its rows
SummaryWriteStep ==
    /\ SummaryInFlight
    /\ summary_run'[1].pc = "written"
    /\ log' = "summary_upserted"

\* C21: a sweep that commits between the query and the write of a run of
\* calculate_daily_summary deletes none of the readings that run read: they
\* are dated today, the deleted ones are older than two days; and the rows
\* the run writes are the summaries of the readings of today as stored.
C21_SweepSparesTodaysReadings ==
    /\ [](summary_run # <<>> =>
            \A r \in summary_run[1].deleted :
                /\ r.dt \div 24 # summary_run[1].today
                /\ \A i \in 1..Len(summary_run[1].results) :
                     summary_run[1].results[i] # r)
    /\ [][SummaryWriteStep =>
            LET todays == {r \in weather_data :
                              r.dt \div 24 = summary_run[1].today}
            IN  /\ todays = {summary_run[1].results[i] :
                                i \in 1..Len(summary_run[1].results)}
                /\ \A o \in Orders(todays) : SummaryDicts(o) \subseteq daily_summary']_vars

\* a summary written after a sweep deleted a reading during the run and
\* kept the one exactly two days old
C21_Witness ==
    /\ summary_run # <<>>
    /\ summary_run[1].pc = "written"
    /\ log = "summary_upserted"
    /\ summary_run[1].deleted # {}
    /\ \E r \in weather_data : r.dt = now - CutoffHours

\* a call of initialise_tables that returns
InitialisedStep ==
    /\ calls' # calls
    /\ calls'[Len(calls')] \notin {"error_creating_entry", "could_not_connect"}

\* C22: a run of initialise_tables that returns leaves the three tables
\* existing; on a store with no table it leaves user_config holding the
\* default row and nothing else; on a store with a user_config table it
\* leaves user_config as it is; and it changes no row of weather_data and
\* daily_summary.
C22_InitialiseOnceThenIdle ==
    [][InitialisedStep =>
         /\ tables' = TableNames
         /\ tables = {} => user_config' = {ALERT_THRESHOLDS}
         /\ "user_config" \in tables => user_config' = user_config
         /\ weather_data' = weather_data
         /\ daily_summary' = daily_summary]_vars

\* a run that created user_config with its default row and a second run
\* that created nothing, as on a store that had no table
C22_Witness ==
    /\ calls = <<"created_user_config", "none">>
    /\ tables = TableNames
    /\ user_config = {ALERT_THRESHOLDS}
    /\ weather_data = {}
    /\ daily_summary = {}

\* C23: once two interleaved update_user_config calls have both committed,
\* user_config holds one row, and it is the row of one of the two calls.
C23_OneConfigAfterTwoSessions ==
    (\A s \in Sessions : config_sessions[s].pc = "committed") =>
        /\ Cardinality(user_config) <= 1
        /\ user_config \subseteq
             UNION {config_sessions[s].new_config : s \in Sessions}

\* C24: in a tick that fetched a reading, and in which no connection fails,
\* store_weather_data, calculate_daily_summary and check_alerts_in_app run in
\* this order, one after the other, and unless the database refused the
\* statement of the store, the summary is computed over a store that holds
\* every reading of the tick.
C24_TickOrder ==
    [][pc' # "crashed" =>
         /\ pc = "store" => pc' \in {"store", "aggregate"}
         /\ pc = "aggregate" => pc' \in {"aggregate", "alert"}
         /\ pc = "alert" => pc' \in {"alert", "idle"}
         /\ (AggregateStep /\ log # "error_inserting_operational") =>
               \A i \in 1..Len(weather_data_list) :
                   weather_data_list[i] \in weather_data]_vars

\* the call of get_engine stands at p
EngineAt(p) == engine_run # <<>> /\ engine_run[1].pc = p

\* C25: a call of get_engine makes at most retries attempts; it returns at
\* the first attempt that connects; it raises once retries attempts in a row
\* have failed, and not before; and every call ends.
C25_EngineTerminates ==
    /\ [](engine_run # <<>> => engine_run[1].attempts <= retries)
    /\ [](EngineAt("returned") => engine_run[1].attempts = engine_run[1].i + 1)
    /\ [](EngineAt("raised") => engine_run[1].attempts = retries)
    /\ (EngineAt("sleeping") /\ engine_run[1].attempts = retries)
          ~> EngineAt("raised")
    /\ EngineInLoop ~> ~EngineInLoop

\* a call that returned at a first attempt, and one that raised after retries
\* attempts
C25_Witness ==
    /\ calls = <<"returned", "raised">>
    /\ engine_run # <<>>
    /\ engine_run[1].pc = "raised"
    /\ engine_run[1].attempts = retries
    /\ engine_run[1].i = retries - 1

\* the step in which an update_user_config fails and rolls back
UpdateFailedStep == dpc = "settings" /\ dpc' = "alerts" /\ dlog' = "error_updating"

\* the check_alerts_in_app of a render whose update_user_config failed
AlertsAfterFailedStep ==
    /\ dpc = "alerts" /\ dlog = "error_updating"
    /\ dpc' = "settings" /\ dlog' = "error_updating"

\* C26: an update_user_config that fails leaves user_config as it was: the
\* row there was is still there, read_user_config returns it, and the
\* check_alerts_in_app that follows decides on it and reports it.
C26_FailedReplaceKeepsConfig ==
    [][/\ UpdateFailedStep =>
             /\ user_config' = user_config
             /\ read_user_config' = read_user_config
             /\ Cardinality(user_config') = Cardinality(user_config)
       /\ AlertsAfterFailedStep =>
             \A c \in user_config :
                 IF Fires(c)
                 THEN /\ Len(alerts') = 1
                      /\ alerts'[1].city = c.city
                      /\ alerts'[1].threshold = c.threshold
                      /\ alerts'[1].unit = c.unit
                 ELSE alerts' = <<>>]_vars

\* a render whose update to another city failed, and whose alert is for the
\* city of the config that was there
C26_Witness ==
    /\ RenderDone
    /\ dlog = "error_updating"
    /\ settings # <<>>
    /\ Cardinality(user_config) = 1
    /\ Len(alerts) = 1
    /\ alerts[1].city # settings[1].city
    /\ \E c \in user_config : alerts[1].city = c.city

=============================================================================
